---- MODULE Spec2Model ----
(***************************************************************************)
(* Model of the BikeCorp ETL pipeline: the store-level cleaning operations *)
(* of cleaners.py acting on a MongoDB database, the MongoDB adapter of     *)
(* database.py, the source connectors of data_connectors.py, the in-memory *)
(* string transforms of cleaners.py and the orchestration of main.py.      *)
(*                                                                         *)
(* A collection is the sequence of its documents in natural (insertion)    *)
(* order.  A document is a record [id, f]: id is its _id and f the partial *)
(* function from its other field names to their values.  A collection that *)
(* does not exist is the empty sequence, as it is for every pymongo call   *)
(* used here.                                                              *)
(***************************************************************************)
EXTENDS Integers, Sequences, FiniteSets, TLC

VARIABLES
    store,      \* the database: collection name -> sequence of documents
    op,         \* the call made last, with its arguments
    pre,        \* the database as it was when that call was made
    raised,     \* the exception that call raised, "none" when it returned
    df,         \* the polars dataframe the caller holds
    arg,        \* the dataframe passed to the last transform of cleaners.py
    nextId,     \* the ObjectIds generated so far
    env,        \* what a connector finds: environment, remote end, local file
    got,        \* the outcome of the last Connector.get
    pc,         \* where the run of main.py is
    stmt,       \* the statement of the with block the run is at
    client,     \* the MongoClient of the MongoDB object
    exc,        \* the exception in flight in the with block
    printed,    \* what __exit__ printed
    outcome     \* how the with statement ended for the code around it

storeVars == <<store, op, pre, raised>>
frameVars == <<df, nextId, arg>>
connVars == <<env, got>>
runVars == <<pc, stmt, client, exc, printed, outcome>>
vars == <<store, op, pre, raised, df, nextId, arg, env, got, pc, stmt, client,
          exc, printed, outcome>>

\* BSON null: Python None, a null cell of a polars column.
Null == "null"
\* Field values: a string (the one the default empty_values lists) and null.
Values == {"NULL", Null}
Fields == {"b", "s"}
Collections == {"c1", "c2"}

\* Most documents the whole database holds in an initial state.
MaxDocs == 3
\* Most rows of a dataframe a connector returns.
MaxRows == 2
\* Most ObjectIds generated in one behaviour.
MaxId == 3
\* Longest string of the column the string transforms work on.
MaxLen == 3
\* Most documents of a database merge_collections is called on.
MaxMerged == 2

----------------------------------------------------------------------------
(* MongoDB primitives used by cleaners.py *)

Has(d, field) == field \in DOMAIN d.f

\* The query {field: value}: equality, where null also matches a document
\* that does not have the field.
EqFilter(d, field, value) ==
    IF value = Null
    THEN ~Has(d, field) \/ d.f[field] = Null
    ELSE Has(d, field) /\ d.f[field] = value

\* The query {field: {"$in": values}}.
InFilter(d, field, values) == \E v \in values : EqFilter(d, field, v)

\* {"$unset": {field: ""}} on one document.
Unset(d, field) ==
    [d EXCEPT !.f = [g \in (DOMAIN d.f) \ {field} |-> d.f[g]]]

\* {"$set": {field: value}} on one document.
Set(d, field, value) ==
    [d EXCEPT !.f = [g \in (DOMAIN d.f) \cup {field} |->
                        IF g = field THEN value ELSE d.f[g]]]

----------------------------------------------------------------------------
(* cleaners.py: drop_empty, drop_field *)

\* update_one in place of update_many: only the first match is updated.
UnsetFirstWhereIn(docs, field, empty_values) ==
    [i \in 1..Len(docs) |->
        IF /\ InFilter(docs[i], field, empty_values)
           /\ \A h \in 1..(i - 1) : ~InFilter(docs[h], field, empty_values)
        THEN Unset(docs[i], field) ELSE docs[i]]

\* update_many({field: {"$in": empty_values}}, {"$unset": {field: ""}})
UnsetWhereIn(docs, field, empty_values) ==
    [i \in 1..Len(docs) |->
        IF InFilter(docs[i], field, empty_values)
        THEN Unset(docs[i], field) ELSE docs[i]]

\* drop_empty: collection_field_pairs is a dict, one field per listed collection.
drop_empty(db, collection_field_pairs, empty_values) ==
    [c \in Collections |->
        IF c \in DOMAIN collection_field_pairs
        THEN UnsetWhereIn(db[c], collection_field_pairs[c], empty_values)
        ELSE db[c]]

\* update_one in place of update_many: only the first document is updated.
UnsetFirst(docs, field) ==
    [i \in 1..Len(docs) |-> IF i = 1 THEN Unset(docs[i], field) ELSE docs[i]]

\* update_many({}, {"$unset": {field: ""}})
UnsetAll(docs, field) == [i \in 1..Len(docs) |-> Unset(docs[i], field)]

drop_field(db, collection, field) ==
    [db EXCEPT ![collection] = UnsetAll(db[collection], field)]

----------------------------------------------------------------------------
(* cleaners.py: merge_collection *)

\* The dict `mappings` as the sequence of its <<key, value>> items: a dict
\* keeps its keys in the order of their first insertion, and an assignment
\* to a key it has replaces the value in place.
DictHas(m, key) == \E i \in 1..Len(m) : m[i][1] = key
DictGet(m, key) == m[CHOOSE i \in 1..Len(m) : m[i][1] = key][2]
DictPut(m, key, value) ==
    IF DictHas(m, key)
    THEN [i \in 1..Len(m) |-> IF m[i][1] = key THEN <<key, value>> ELSE m[i]]
    ELSE Append(m, <<key, value>>)

\* The scan of the source collection (lines 61-67).
RECURSIVE ScanFrom(_, _, _, _, _)
ScanFrom(docs, i, bridge_field, source_field, m) ==
    IF i > Len(docs) THEN m
    ELSE ScanFrom(docs, i + 1, bridge_field, source_field,
                  DictPut(m, docs[i].f[bridge_field], docs[i].f[source_field]))

Mappings(docs, bridge_field, source_field) ==
    ScanFrom(docs, 1, bridge_field, source_field, <<>>)

\* id_target_pair[...] raises KeyError on a source document without the field.
ScanRaises(docs, bridge_field, source_field) ==
    \E i \in 1..Len(docs) :
        ~Has(docs[i], bridge_field) \/ ~Has(docs[i], source_field)

\* One update_many of the second loop (lines 69-75).
SetAndUnsetWhere(docs, bridge_field, bridge, source_field, target) ==
    [i \in 1..Len(docs) |->
        IF EqFilter(docs[i], bridge_field, bridge)
        THEN Unset(Set(docs[i], source_field, target), bridge_field)
        ELSE docs[i]]

\* The second loop: one update_many per item of mappings, in dict order.
RECURSIVE UpdateFrom(_, _, _, _, _)
UpdateFrom(docs, m, j, bridge_field, source_field) ==
    IF j > Len(m) THEN docs
    ELSE UpdateFrom(
            SetAndUnsetWhere(docs, bridge_field, m[j][1], source_field, m[j][2]),
            m, j + 1, bridge_field, source_field)

\* MongoDB refuses an update that sets and unsets the same path.
UpdateConflicts(target_bridge, source_field) == target_bridge = source_field

\* The exception merge_collection ends with, "none" when it returns.
merge_raises(db, target, source) ==
    LET src == db[source.collection] IN
    IF ScanRaises(src, source.bridge_field, source.source_field) THEN "KeyError"
    ELSE IF /\ Mappings(src, source.bridge_field, source.source_field) # <<>>
            /\ UpdateConflicts(target.bridge_field, source.source_field)
         THEN "WriteError"
    ELSE "none"

\* The database merge_collection leaves.  An exception leaves it as it was:
\* KeyError is raised before the first update, WriteError by the first one.
merge_collection(db, target, source) ==
    IF merge_raises(db, target, source) # "none" THEN db
    ELSE [db EXCEPT ![target.collection] =
            UpdateFrom(db[target.collection],
                       Mappings(db[source.collection],
                                source.bridge_field, source.source_field),
                       1, target.bridge_field, source.source_field)]

\* merge_collections, from item k of source_dict on: one merge_collection
\* per item, in dict order, each on the database the one before left.  An
\* exception of a merge ends the loop; the merges before it stay applied.
\* source_dict is the sequence of its items <<source_collection, fields>>,
\* fields = <<target_bridge_field, source_bridge_field, source_field>>.
RECURSIVE MergeFrom(_, _, _, _)
MergeFrom(db, target_collection, source_dict, k) ==
    IF k > Len(source_dict) THEN [db |-> db, raised |-> "none"]
    ELSE LET fields == source_dict[k][2]
             target == [collection |-> target_collection,
                        bridge_field |-> fields[1]]
             source == [collection |-> source_dict[k][1],
                        bridge_field |-> fields[2],
                        source_field |-> fields[3]]
         IN  IF merge_raises(db, target, source) # "none"
             THEN [db |-> merge_collection(db, target, source),
                   raised |-> merge_raises(db, target, source)]
             ELSE MergeFrom(merge_collection(db, target, source),
                            target_collection, source_dict, k + 1)

merge_collections(db, target_collection, source_dict) ==
    MergeFrom(db, target_collection, source_dict, 1)

----------------------------------------------------------------------------
(* The cleaning operations applied to a database.  The calls never add a    *)
(* document, so every database they can produce is itself an initial       *)
(* database: a behaviour draws a database and makes one call on it.        *)

\* Documents carry distinct ids; the cleaning operations never change them.
PartialDocs == UNION {[S -> Values] : S \in SUBSET Fields}

RECURSIVE SeqsUpTo(_, _)
SeqsUpTo(S, n) ==
    IF n = 0 THEN {<<>>}
    ELSE LET shorter == SeqsUpTo(S, n - 1) IN
         shorter \cup {Append(q, x) : q \in {r \in shorter : Len(r) = n - 1}, x \in S}

\* Contents fs of one collection as documents with ids base+1, base+2, ...
WithIds(fs, base) == [i \in 1..Len(fs) |-> [id |-> base + i, f |-> fs[i]]]

Databases ==
    {[c \in Collections |->
        IF c = "c1" THEN WithIds(q1, 0) ELSE WithIds(q2, Len(q1))] :
        <<q1, q2>> \in {p \in SeqsUpTo(PartialDocs, MaxDocs) \X SeqsUpTo(PartialDocs, MaxDocs) :
                            Len(p[1]) + Len(p[2]) <= MaxDocs}}

NoOp == [name |-> "none"]

\* The variables of the connectors and of the run while neither is at work.
NotCalled == [connector |-> "none"]
ConnIdle == env = [set |-> FALSE] /\ got = NotCalled
NoException == [type |-> "none", at |-> 0]
RunIdle ==
    /\ pc = "idle"
    /\ stmt = 0
    /\ client = "unset"
    /\ exc = NoException
    /\ printed = "nothing"
    /\ outcome = "none"

\* A dataframe: whether it has an _id column, its other columns, its rows.
\* A row is a record [id, f] like a document, f defined on every column and
\* id = 0 when there is no _id column.
EmptyFrame == [id_col |-> FALSE, cols |-> {}, rows |-> <<>>]

Init ==
    /\ store \in Databases
    /\ op = NoOp
    /\ pre = store
    /\ raised = "none"
    /\ df = EmptyFrame
    /\ arg = EmptyFrame
    /\ nextId = 0
    /\ ConnIdle
    /\ RunIdle

\* collection_field_pairs: every dict from some of the collections to a field.
PairDicts == UNION {[S -> Fields] : S \in SUBSET Collections}
EmptyValueLists == {{"NULL"}, {Null}, {"NULL", Null}}

DropEmpty ==
    \E pairs \in PairDicts, ev \in EmptyValueLists :
        /\ op = NoOp
        /\ op' = [name |-> "drop_empty", pairs |-> pairs, empty_values |-> ev]
        /\ pre' = store
        /\ store' = drop_empty(store, pairs, ev)
        /\ raised' = "none"
        /\ UNCHANGED <<frameVars, connVars, runVars>>

DropField ==
    \E c \in Collections, field \in Fields :
        /\ op = NoOp
        /\ op' = [name |-> "drop_field", collection |-> c, field |-> field]
        /\ pre' = store
        /\ store' = drop_field(store, c, field)
        /\ raised' = "none"
        /\ UNCHANGED <<frameVars, connVars, runVars>>

Targets == [collection : Collections, bridge_field : Fields]
Sources == [collection : Collections, bridge_field : Fields, source_field : Fields]

MergeCollection ==
    \E target \in Targets, source \in Sources :
        /\ op = NoOp
        /\ op' = [name |-> "merge_collection", target |-> target, source |-> source]
        /\ pre' = store
        /\ store' = merge_collection(store, target, source)
        /\ raised' = merge_raises(store, target, source)
        /\ UNCHANGED <<frameVars, connVars, runVars>>

\* source_dict: every dict from some of the collections to a triple of
\* fields, in each order of its keys.
SourceDicts ==
    {q \in SeqsUpTo(Collections \X (Fields \X Fields \X Fields),
                    Cardinality(Collections)) :
        \A i, j \in 1..Len(q) : q[i][1] = q[j][1] => i = j}

DocumentsIn(db) ==
    LET RECURSIVE Total(_)
        Total(S) == IF S = {} THEN 0
                    ELSE LET c == CHOOSE x \in S : TRUE
                         IN  Len(db[c]) + Total(S \ {c})
    IN  Total(Collections)

MergeCollections ==
    /\ op = NoOp
    /\ DocumentsIn(store) <= MaxMerged
    /\ \E target_collection \in Collections, source_dict \in SourceDicts :
        LET res == merge_collections(store, target_collection, source_dict) IN
        /\ op' = [name |-> "merge_collections",
                  target_collection |-> target_collection,
                  source_dict |-> source_dict]
        /\ pre' = store
        /\ store' = res.db
        /\ raised' = res.raised
        /\ UNCHANGED <<frameVars, connVars, runVars>>

Next == DropEmpty \/ DropField \/ MergeCollection \/ MergeCollections

Spec == Init /\ [][Next]_vars

----------------------------------------------------------------------------
(* database.py: write_polars, read_polars *)

Range(q) == {q[i] : i \in 1..Len(q)}

\* DataFrame.to_dicts(): one dict per row, every column a key (a null cell
\* is the value None), the _id column included when the frame has one.
to_dicts(frame) == frame.rows

\* insert_many(documents): ordered, it stops at the first document whose _id
\* the collection already holds and raises; the documents before it stay
\* inserted.  A document without _id carries the ObjectId fresh(i).
RECURSIVE InsertFrom(_, _, _, _)
InsertFrom(docs, dicts, i, fresh) ==
    IF i > Len(dicts) THEN [docs |-> docs, raised |-> "none"]
    ELSE LET d == IF dicts[i].id = 0
                  THEN [dicts[i] EXCEPT !.id = fresh + i]
                  ELSE dicts[i]
         IN  IF \E h \in 1..Len(docs) : docs[h].id = d.id
             THEN [docs |-> docs, raised |-> "BulkWriteError"]
             ELSE InsertFrom(Append(docs, d), dicts, i + 1, fresh)

\* insert_many refuses an empty list before it sends anything.
insert_many(docs, dicts, fresh) ==
    IF dicts = <<>> THEN [docs |-> docs, raised |-> "TypeError"]
    ELSE InsertFrom(docs, dicts, 1, fresh)

\* A write that never drops: overwrite is ignored.
KeepContents(docs, overwrite) == docs

\* if overwrite: self.database[collection].drop()
DropIfOverwrite(docs, overwrite) == IF overwrite THEN <<>> ELSE docs

write_polars(db, frame, collection, overwrite, fresh) ==
    insert_many(DropIfOverwrite(db[collection], overwrite), to_dicts(frame), fresh)

\* pl.from_dicts(find()): the columns are the keys met in the documents, and
\* a document without a key gets a null cell there.  Every document has an
\* _id; an empty cursor gives a frame with no column and no row.
read_polars(db, collection) ==
    LET docs == db[collection]
        cols == UNION {DOMAIN docs[i].f : i \in 1..Len(docs)}
    IN  [id_col |-> docs # <<>>,
         cols   |-> cols,
         rows   |-> [i \in 1..Len(docs) |->
                        [id |-> docs[i].id,
                         f  |-> [g \in cols |->
                                    IF Has(docs[i], g) THEN docs[i].f[g] ELSE Null]]]]

\* drop_collections: drop_collection for every collection of the list; a
\* collection that does not exist is dropped without an error.
drop_collections(db, collections) ==
    [c \in Collections |-> IF c \in collections THEN <<>> ELSE db[c]]

\* The dataframes a connector returns: no _id column, one column "b", at
\* most MaxRows rows (their id is 0: no _id yet).
ConnectorFrames ==
    {[id_col |-> FALSE, cols |-> {"b"},
      rows |-> [i \in 1..Len(fs) |-> [id |-> 0, f |-> fs[i]]]] :
        fs \in SeqsUpTo([{"b"} -> Values], MaxRows)}

InitIO ==
    /\ store = [c \in Collections |-> <<>>]
    /\ op = NoOp
    /\ pre = store
    /\ raised = "none"
    /\ df = EmptyFrame
    /\ arg = EmptyFrame
    /\ nextId = 0
    /\ ConnIdle
    /\ RunIdle

\* data = Connector.get(name)
GetFrame ==
    \E frame \in ConnectorFrames :
        /\ df' = frame
        /\ op' = [name |-> "get"]
        /\ pre' = store
        /\ raised' = "none"
        /\ UNCHANGED <<store, nextId, arg, connVars, runVars>>

\* database.write_polars(df, collection, overwrite)
WritePolars ==
    \E c \in Collections, overwrite \in BOOLEAN :
        LET new == IF df.id_col THEN 0 ELSE Len(df.rows)
            res == write_polars(store, df, c, overwrite, nextId)
        IN  /\ nextId + new <= MaxId
            /\ op' = [name |-> "write_polars", collection |-> c,
                      overwrite |-> overwrite, frame |-> df]
            /\ pre' = store
            /\ store' = [store EXCEPT ![c] = res.docs]
            /\ raised' = res.raised
            /\ nextId' = nextId + new
            /\ UNCHANGED <<df, arg, connVars, runVars>>

\* df = database.read_polars(collection)
ReadPolars ==
    \E c \in Collections :
        /\ df' = read_polars(store, c)
        /\ op' = [name |-> "read_polars", collection |-> c]
        /\ pre' = store
        /\ raised' = "none"
        /\ UNCHANGED <<store, nextId, arg, connVars, runVars>>

\* database.drop_collections(collections)
DropCollections ==
    \E collections \in SUBSET Collections :
        /\ op' = [name |-> "drop_collections", collections |-> collections]
        /\ pre' = store
        /\ store' = drop_collections(store, collections)
        /\ raised' = "none"
        /\ UNCHANGED <<frameVars, connVars, runVars>>

NextIO == GetFrame \/ WritePolars \/ ReadPolars \/ DropCollections

SpecIO == InitIO /\ [][NextIO]_vars

----------------------------------------------------------------------------
(* data_connectors.py: ConnectorCSV, ConnectorAPI, ConnectorSQL *)

\* What the remote end (the API, the MySQL server) does with a request:
\* answers, answers with an error (a status other than 200, a failing
\* query), does not answer in time, cannot be connected to.
Remotes == {"ok", "error_response", "timeout", "connection_error"}

\* set: the environment variable env_key is set; address: it holds an
\* address; local_file: <folder_path>/<name>.csv is a file.
Worlds == [set : BOOLEAN, address : BOOLEAN, remote : Remotes, local_file : BOOLEAN]

\* The extension path.splitext finds in the name passed to get.
Extensions == {"", ".csv", ".json"}

Outcome(connector, ext, source, exception, was_printed) ==
    [connector |-> connector, ext |-> ext, source |-> source,
     raised |-> exception, printed |-> was_printed]

\* ConnectorCSV.get: two asserts, then read_csv.
csv_get(world, connector, ext, was_printed) ==
    IF ext \notin {"", ".csv"}
    THEN Outcome(connector, ext, "none", "AssertionError", was_printed)
    ELSE IF ~world.local_file
    THEN Outcome(connector, ext, "none", "AssertionError", was_printed)
    ELSE Outcome(connector, ext, "local", "none", was_printed)

\* ConnectorAPI.get: env.dict(env_key) is evaluated before the try block;
\* inside it, a missing address, any exception of requests.get and a status
\* other than 200 are caught, printed, and answered by super().get.
api_get(world, ext) ==
    IF ~world.set THEN Outcome("api", ext, "none", "EnvError", FALSE)
    ELSE IF world.address /\ world.remote = "ok"
    THEN Outcome("api", ext, "remote", "none", FALSE)
    ELSE csv_get(world, "api", ext, TRUE)

\* ConnectorSQL.get: env.dict, connect and execute are all inside the try
\* block; any exception is caught, printed, and answered by super().get.
sql_get(world, ext) ==
    IF world.set /\ world.remote = "ok"
    THEN Outcome("sql", ext, "remote", "none", FALSE)
    ELSE csv_get(world, "sql", ext, TRUE)

InitConn ==
    /\ env \in Worlds
    /\ got = NotCalled
    /\ store = [c \in Collections |-> <<>>]
    /\ op = NoOp
    /\ pre = store
    /\ raised = "none"
    /\ df = EmptyFrame
    /\ arg = EmptyFrame
    /\ nextId = 0
    /\ RunIdle

CsvGet ==
    \E ext \in Extensions :
        /\ got' = csv_get(env, "csv", ext, FALSE)
        /\ UNCHANGED <<env, storeVars, frameVars, runVars>>

ApiGet ==
    \E ext \in Extensions :
        /\ got' = api_get(env, ext)
        /\ UNCHANGED <<env, storeVars, frameVars, runVars>>

SqlGet ==
    \E ext \in Extensions :
        /\ got' = sql_get(env, ext)
        /\ UNCHANGED <<env, storeVars, frameVars, runVars>>

NextConn == CsvGet \/ ApiGet \/ SqlGet

SpecConn == InitConn /\ [][NextConn]_vars

----------------------------------------------------------------------------
(* database.py: MongoDB.__enter__, MongoDB.__exit__; main.py: the with block *)

\* The statements of the with block of main.py, in order.
Body == <<
    "transfer_data",                       \* line 43
    "read_polars staffs",                  \* line 46
    "add_id staffs",                       \* line 47
    "write_polars staffs",                 \* line 48
    "read_polars stores",                  \* line 50
    "add_id stores",                       \* line 51
    "write_polars stores",                 \* line 52
    "merge_collections products",          \* line 55
    "read_polars products",                \* line 63
    "trim_prefix products",                \* line 64
    "replace_with_suffix products",        \* line 67
    "write_polars products",               \* line 70
    "read_polars customers",               \* line 73
    "trim_whitespace customers",           \* line 74
    "drop_field order_items item_id",      \* line 77
    "drop_field order_items list_price",   \* line 78
    "merge_collections orders",            \* line 81
    "merge_collection orders staffs",      \* line 89
    "merge_collection staffs stores",      \* line 103
    "drop_field staffs street",            \* line 115
    "merge_collection stocks stores",      \* line 118
    "drop_collections",                    \* line 132
    "drop_empty" >>                        \* line 135

\* Exceptions a statement of the block ends with: the server cannot be
\* reached, a source document lacks a field, a connector finds no file, the
\* environment variable of the API connector is not set, a connector
\* returned no row, a written row carries an _id the collection holds, an
\* update sets and unsets one path, add_id is given the name of a column, a
\* transform is given a frame without the column.
BodyExceptions ==
    {"ServerSelectionTimeoutError", "KeyError", "AssertionError", "EnvError",
     "TypeError", "BulkWriteError", "WriteError", "DuplicateError",
     "ColumnNotFoundError"}

\* __enter__: self.client = MongoClient(**self.kwargs)
enter(c) == "open"

\* __exit__ leaves self.client as it is: it has no call of close().
exit_client(c) == c

\* What __exit__ prints.
exit_prints(e) == IF e.type # "none" THEN e.type ELSE "nothing"

\* __exit__ has no return statement: it returns None, which is false.
exit_returns(e) == FALSE

\* The with statement: the exception goes on to the code around the block
\* unless __exit__ returns a true value.
with_outcome(e) ==
    IF e.type # "none" /\ ~exit_returns(e) THEN "raised" ELSE "completed"

InitRun ==
    /\ pc = "start"
    /\ stmt = 0
    /\ client = "unset"
    /\ exc = NoException
    /\ printed = "nothing"
    /\ outcome = "none"
    /\ store = [c \in Collections |-> <<>>]
    /\ op = NoOp
    /\ pre = store
    /\ raised = "none"
    /\ df = EmptyFrame
    /\ arg = EmptyFrame
    /\ nextId = 0
    /\ ConnIdle

\* with MongoDB("BikeCorpDB") as db:
Enter ==
    /\ pc = "start"
    /\ client' = enter(client)
    /\ pc' = "body"
    /\ stmt' = 1
    /\ UNCHANGED <<exc, printed, outcome, storeVars, frameVars, connVars>>

\* A statement of the block returns.
StatementReturns ==
    /\ pc = "body"
    /\ IF stmt < Len(Body)
       THEN stmt' = stmt + 1 /\ pc' = "body"
       ELSE stmt' = stmt /\ pc' = "exit"
    /\ UNCHANGED <<client, exc, printed, outcome, storeVars, frameVars, connVars>>

\* A statement of the block raises: control leaves the block for __exit__.
StatementRaises ==
    \E e \in BodyExceptions :
        /\ pc = "body"
        /\ exc' = [type |-> e, at |-> stmt]
        /\ pc' = "exit"
        /\ UNCHANGED <<stmt, client, printed, outcome, storeVars, frameVars, connVars>>

\* __exit__(exception_type, exception_value, traceback), and what the with
\* statement does with its result.
Exit ==
    /\ pc = "exit"
    /\ printed' = exit_prints(exc)
    /\ client' = exit_client(client)
    /\ outcome' = with_outcome(exc)
    /\ pc' = "done"
    /\ UNCHANGED <<stmt, exc, storeVars, frameVars, connVars>>

NextRun == Enter \/ StatementReturns \/ StatementRaises \/ Exit

SpecRun == InitRun /\ [][NextRun]_vars

----------------------------------------------------------------------------
(* cleaners.py: trim_whitespace, trim_prefix, replace_with_suffix.  A      *)
(* string is the sequence of its characters.                               *)

\* A letter, a whitespace character, the character of the delimiters.
Alphabet == {"a", " ", "-"}
Whitespace == {" "}

StartsWith(str, prefix) ==
    Len(prefix) <= Len(str) /\ SubSeq(str, 1, Len(prefix)) = prefix

\* Expr.str.strip_chars_start(characters): drops every leading character
\* that occurs in `characters`.
RECURSIVE strip_chars_start(_, _)
strip_chars_start(str, characters) ==
    IF str # <<>> /\ Head(str) \in Range(characters)
    THEN strip_chars_start(Tail(str), characters) ELSE str

\* Expr.str.strip_prefix(prefix): drops the prefix when the string starts
\* with it.
strip_prefix(str, prefix) ==
    IF StartsWith(str, prefix)
    THEN SubSeq(str, Len(prefix) + 1, Len(str)) ELSE str

\* Expr.str.strip_chars(): drops leading and trailing whitespace.
RECURSIVE StripStart(_)
StripStart(str) ==
    IF str # <<>> /\ Head(str) \in Whitespace THEN StripStart(Tail(str)) ELSE str

RECURSIVE StripEnd(_)
StripEnd(str) ==
    IF str # <<>> /\ str[Len(str)] \in Whitespace
    THEN StripEnd(SubSeq(str, 1, Len(str) - 1)) ELSE str

strip_chars(str) == StripEnd(StripStart(str))

\* Where the delimiter first occurs in the string, 0 when nowhere.
Find(str, delimiter) ==
    LET at == {i \in 1..(Len(str) - Len(delimiter) + 1) :
                    SubSeq(str, i, i + Len(delimiter) - 1) = delimiter}
    IN  IF at = {} THEN 0 ELSE CHOOSE i \in at : \A j \in at : i <= j

\* Expr.str.split(by): the segments between the occurrences of the
\* delimiter, found left to right, each search starting after the last match.
RECURSIVE str_split(_, _)
str_split(str, delimiter) ==
    LET i == Find(str, delimiter) IN
    IF i = 0 THEN <<str>>
    ELSE <<SubSeq(str, 1, i - 1)>>
         \o str_split(SubSeq(str, i + Len(delimiter), Len(str)), delimiter)

\* An element of a list column: a string or null.
Item(str) == [null |-> FALSE, str |-> str]
NullItem == [null |-> TRUE, str |-> <<>>]

\* Expr.list.shift(): every element moves one place up, null comes first,
\* the last element is dropped.
list_shift(segments) ==
    [i \in 1..Len(segments) |-> IF i = 1 THEN NullItem ELSE Item(segments[i - 1])]

\* Expr.list.join(separator): the non-null elements joined, "" when none.
RECURSIVE list_join(_, _)
list_join(items, separator) ==
    IF items = <<>> THEN <<>>
    ELSE LET rest == SubSeq(items, 2, Len(items))
             more == \E i \in 1..Len(rest) : ~rest[i].null
         IN  IF items[1].null THEN list_join(rest, separator)
             ELSE items[1].str \o (IF more THEN separator ELSE <<>>)
                  \o list_join(rest, separator)

\* The first element in place of the last.
list_first(segments) == segments[1]

\* Expr.list.last()
list_last(segments) == segments[Len(segments)]

\* DataFrame.with_columns(expr): column `field` of every row recomputed from
\* the row; Update(f) is the new value for the row with cells f.
WithColumn(frame, field, Update(_)) ==
    [frame EXCEPT !.rows =
        [i \in 1..Len(frame.rows) |->
            [frame.rows[i] EXCEPT !.f[field] = Update(frame.rows[i].f)]]]

trim_whitespace(frame, field) ==
    WithColumn(frame, field, LAMBDA f : strip_chars(f[field]))

trim_prefix(frame, field, prefix_field, post_trim_whitespace) ==
    LET stripped == WithColumn(frame, field,
                        LAMBDA f : strip_prefix(f[field], f[prefix_field]))
    IN  IF post_trim_whitespace THEN trim_whitespace(stripped, field) ELSE stripped

\* The temporary column <field>_split_temp is the local `segments` here: both
\* new columns are computed from it in one with_columns.
replace_with_suffix(frame, field, suffix_field, delimiter, post_trim_whitespace) ==
    LET split == [frame EXCEPT !.rows =
            [i \in 1..Len(frame.rows) |->
                LET segments == str_split(frame.rows[i].f[field], delimiter) IN
                [frame.rows[i] EXCEPT
                    !.f[field] = list_join(list_shift(segments), delimiter),
                    !.f[suffix_field] = list_last(segments)]]]
    IN  IF post_trim_whitespace
        THEN trim_whitespace(trim_whitespace(split, field), suffix_field)
        ELSE split

\* The products frame of main.py: the name the transforms work on, the brand
\* name merged in before, the model year.
Strings == SeqsUpTo(Alphabet, MaxLen)
Brands == {<<>>, <<"a">>, <<"a", " ">>, <<"-">>}
ProductRows ==
    {[product_name |-> n, brand_name |-> b, model_year |-> <<"0">>] :
        n \in Strings, b \in Brands}
ProductFrames ==
    {[id_col |-> FALSE, cols |-> {"product_name", "brand_name", "model_year"},
      rows |-> <<[id |-> 0, f |-> r1], [id |-> 0, f |-> r2]>>] :
        r1 \in ProductRows, r2 \in ProductRows}

Delimiters == {<<"-">>, <<"-", "-">>}

InitStr ==
    /\ arg \in ProductFrames
    /\ df = arg
    /\ op = NoOp
    /\ store = [c \in Collections |-> <<>>]
    /\ pre = store
    /\ raised = "none"
    /\ nextId = 0
    /\ ConnIdle
    /\ RunIdle

\* A transform is applied to the frame drawn: every frame the transforms
\* return within the bounds is itself one of the frames drawn.
TrimWhitespace ==
    /\ op = NoOp
    /\ op' = [name |-> "trim_whitespace"]
    /\ df' = trim_whitespace(arg, "product_name")
    /\ UNCHANGED <<arg, store, pre, raised, nextId, connVars, runVars>>

TrimPrefix ==
    \E post \in BOOLEAN :
        /\ op = NoOp
        /\ op' = [name |-> "trim_prefix", post_trim_whitespace |-> post]
        /\ df' = trim_prefix(arg, "product_name", "brand_name", post)
        /\ UNCHANGED <<arg, store, pre, raised, nextId, connVars, runVars>>

ReplaceWithSuffix ==
    \E delimiter \in Delimiters, post \in BOOLEAN :
        /\ op = NoOp
        /\ op' = [name |-> "replace_with_suffix", delimiter |-> delimiter,
                  post_trim_whitespace |-> post]
        /\ df' = replace_with_suffix(arg, "product_name", "model_year",
                                     delimiter, post)
        /\ UNCHANGED <<arg, store, pre, raised, nextId, connVars, runVars>>

NextStr == TrimWhitespace \/ TrimPrefix \/ ReplaceWithSuffix

SpecStr == InitStr /\ [][NextStr]_vars

----------------------------------------------------------------------------
(* cleaners.py: add_id *)

\* A row index that counts from one.
row_index_from_one(i) == i

\* DataFrame.with_row_index(name): offset 0, the index of the row at
\* position i (positions count from 1 here) is i - 1.
row_index(i) == i - 1

\* with_row_index refuses a name the frame already has as a column.
add_id_raises(frame, id_name) ==
    IF id_name \in frame.cols THEN "DuplicateError" ELSE "none"

\* return dataframe.with_row_index(id_name)
add_id(frame, id_name) ==
    [frame EXCEPT
        !.cols = frame.cols \cup {id_name},
        !.rows = [i \in 1..Len(frame.rows) |->
                    [frame.rows[i] EXCEPT
                        !.f = [g \in frame.cols \cup {id_name} |->
                                 IF g = id_name THEN row_index(i)
                                 ELSE frame.rows[i].f[g]]]]]

\* The names add_id is called with: a column of the frames, a new name.
IdNames == {"b", "staff_id"}

\* The frames add_id is called on: what a connector returned, what
\* read_polars read from a collection.
IdFrames ==
    ConnectorFrames \cup
    {read_polars([c \in Collections |-> WithIds(q, 0)], "c1") :
        q \in SeqsUpTo(PartialDocs, MaxDocs)}

InitId ==
    /\ arg \in IdFrames
    /\ df = arg
    /\ op = NoOp
    /\ store = [c \in Collections |-> <<>>]
    /\ pre = store
    /\ raised = "none"
    /\ nextId = 0
    /\ ConnIdle
    /\ RunIdle

\* staffs_df = add_id(staffs_df, "staff_id"): an exception leaves the
\* caller's variable as it was.
AddId ==
    \E id_name \in IdNames :
        /\ op = NoOp
        /\ op' = [name |-> "add_id", id_name |-> id_name]
        /\ raised' = add_id_raises(arg, id_name)
        /\ df' = IF add_id_raises(arg, id_name) = "none"
                 THEN add_id(arg, id_name) ELSE df
        /\ UNCHANGED <<arg, store, pre, nextId, connVars, runVars>>

NextId == AddId

SpecId == InitId /\ [][NextId]_vars

----------------------------------------------------------------------------
(* main.py: the cleaning of products and of customers (lines 63-74).  Here  *)
(* the store holds the collections "products" and "customers", and df      *)
(* holds the two dataframe variables of the block, products_df and         *)
(* customers_df (the empty frame while not assigned).                      *)

CleanedCollections == {"products", "customers"}

\* Product names as the merge of line 55 leaves them, streets as loaded.
ProductNames == {<<"a", " ", "a", "-", "a">>, <<" ", "a">>, <<"-">>}
Streets == {<<" ", "a", " ">>, <<"a">>, <<" ">>}

ProductDocs ==
    {[product_name |-> n, brand_name |-> b, model_year |-> <<"0">>] :
        n \in ProductNames, b \in Brands}
CustomerDocs == {[street |-> x] : x \in Streets}

\* The store when the run reaches line 63: both collections hold documents.
CleanStores ==
    {[c \in CleanedCollections |->
        IF c = "products" THEN WithIds(ps, 0) ELSE WithIds(cs, Len(ps))] :
        ps \in SeqsUpTo(ProductDocs, MaxRows) \ {<<>>},
        cs \in SeqsUpTo(CustomerDocs, MaxRows) \ {<<>>}}

InitClean ==
    /\ store \in CleanStores
    /\ pre = store
    /\ op = NoOp
    /\ raised = "none"
    /\ df = [products_df |-> EmptyFrame, customers_df |-> EmptyFrame]
    /\ arg = EmptyFrame
    /\ nextId = 0
    /\ ConnIdle
    /\ pc = "body"
    /\ stmt = 9
    /\ client = "open"
    /\ exc = NoException
    /\ printed = "nothing"
    /\ outcome = "none"

\* The statement the run is at.
At(label) == pc = "body" /\ stmt \in 1..Len(Body) /\ Body[stmt] = label

\* line 63: products_df = db.read_polars("products")
ReadProducts ==
    /\ At("read_polars products")
    /\ df' = [df EXCEPT !.products_df = read_polars(store, "products")]
    /\ stmt' = stmt + 1
    /\ UNCHANGED <<storeVars, arg, nextId, connVars, pc, client, exc, printed, outcome>>

\* line 64: products_df = trim_prefix(products_df, "product_name", "brand_name")
TrimPrefixProducts ==
    /\ At("trim_prefix products")
    /\ df' = [df EXCEPT !.products_df =
                trim_prefix(df.products_df, "product_name", "brand_name", TRUE)]
    /\ stmt' = stmt + 1
    /\ UNCHANGED <<storeVars, arg, nextId, connVars, pc, client, exc, printed, outcome>>

\* line 67: products_df = replace_with_suffix(products_df, "product_name",
\* "model_year", "-")
ReplaceWithSuffixProducts ==
    /\ At("replace_with_suffix products")
    /\ df' = [df EXCEPT !.products_df =
                replace_with_suffix(df.products_df, "product_name", "model_year",
                                    <<"-">>, TRUE)]
    /\ stmt' = stmt + 1
    /\ UNCHANGED <<storeVars, arg, nextId, connVars, pc, client, exc, printed, outcome>>

\* line 70: db.write_polars(products_df, "products", True)
WriteProducts ==
    LET res == write_polars(store, df.products_df, "products", TRUE, nextId) IN
    /\ At("write_polars products")
    /\ store' = [store EXCEPT !["products"] = res.docs]
    /\ raised' = res.raised
    /\ stmt' = stmt + 1
    /\ UNCHANGED <<op, pre, frameVars, connVars, pc, client, exc, printed, outcome>>

\* line 73: customers_df = db.read_polars("customers")
ReadCustomers ==
    /\ At("read_polars customers")
    /\ df' = [df EXCEPT !.customers_df = read_polars(store, "customers")]
    /\ stmt' = stmt + 1
    /\ UNCHANGED <<storeVars, arg, nextId, connVars, pc, client, exc, printed, outcome>>

\* line 74: customers_df = trim_whitespace(customers_df, "street")
TrimWhitespaceCustomers ==
    /\ At("trim_whitespace customers")
    /\ df' = [df EXCEPT !.customers_df =
                trim_whitespace(df.customers_df, "street")]
    /\ stmt' = stmt + 1
    /\ UNCHANGED <<storeVars, arg, nextId, connVars, pc, client, exc, printed, outcome>>

\* lines 77-142: the statements left never write customers_df, and they
\* touch neither the products collection nor the street of a customer
\* (drop_empty unsets the phone of customers only).
LaterStatements ==
    /\ pc = "body"
    /\ stmt > 14
    /\ stmt' = Len(Body)
    /\ pc' = "done"
    /\ UNCHANGED <<storeVars, frameVars, connVars, client, exc, printed, outcome>>

NextClean ==
    \/ ReadProducts
    \/ TrimPrefixProducts
    \/ ReplaceWithSuffixProducts
    \/ WriteProducts
    \/ ReadCustomers
    \/ TrimWhitespaceCustomers
    \/ LaterStatements

SpecClean == InitClean /\ [][NextClean]_vars

----------------------------------------------------------------------------
(* Properties of the store-level cleaning operations *)

\* Document d1 is d0 with at most the fields in `changed` touched.
SameExcept(d0, d1, changed) ==
    /\ d1.id = d0.id
    /\ \A g \in Fields \ changed :
          /\ Has(d1, g) <=> Has(d0, g)
          /\ Has(d0, g) => d1.f[g] = d0.f[g]

SameLengths == \A c \in Collections : Len(store[c]) = Len(pre[c])

\* The bridge mapping of the merge_collection call in op, on the database
\* the call was made on.
OpMappings ==
    Mappings(pre[op.source.collection], op.source.bridge_field, op.source.source_field)

MergeReturned == op.name = "merge_collection" /\ raised = "none"

\* C1: after merge_collection, every target document whose bridge value is
\* a key of the bridge mapping has source_field equal to the mapped value
\* and no bridge_field, and every other target document (no mapping for its
\* bridge value, or no bridge field) is unchanged.
C1_MergePostcondition ==
    MergeReturned =>
        /\ SameLengths
        /\ \A i \in 1..Len(pre[op.target.collection]) :
            LET d0 == pre[op.target.collection][i]
                d1 == store[op.target.collection][i]
                tb == op.target.bridge_field
                sf == op.source.source_field
            IN  IF Has(d0, tb) /\ DictHas(OpMappings, d0.f[tb])
                THEN /\ Has(d1, sf)
                     /\ d1.f[sf] = DictGet(OpMappings, d0.f[tb])
                     /\ ~Has(d1, tb)
                ELSE d1 = d0

\* C2: after drop_empty, in every listed (collection, field) pair every
\* document whose field value is in empty_values has lost the field and
\* nothing else; every other document of the database is unchanged.
C2_DropEmptyFrame ==
    op.name = "drop_empty" =>
        /\ SameLengths
        /\ \A c \in Collections : \A i \in 1..Len(pre[c]) :
            LET d0 == pre[c][i]
                d1 == store[c][i]
            IN  IF c \in DOMAIN op.pairs
                    /\ Has(d0, op.pairs[c])
                    /\ d0.f[op.pairs[c]] \in op.empty_values
                THEN ~Has(d1, op.pairs[c]) /\ SameExcept(d0, d1, {op.pairs[c]})
                ELSE d1 = d0

\* A drop_empty call removed a sentinel value from one document and left
\* another document of the same collection, holding another value, alone.
C2_Witness ==
    /\ op.name = "drop_empty"
    /\ \E c \in DOMAIN op.pairs : \E i, j \in 1..Len(pre[c]) :
          /\ Has(pre[c][i], op.pairs[c]) /\ ~Has(store[c][i], op.pairs[c])
          /\ Has(pre[c][j], op.pairs[c]) /\ Has(store[c][j], op.pairs[c])

\* C3: after drop_field no document of the collection has the field, and a
\* second drop_field with the same arguments leaves the database as the
\* first call left it.
C3_DropFieldIdempotent ==
    op.name = "drop_field" =>
        /\ \A i \in 1..Len(store[op.collection]) :
              ~Has(store[op.collection][i], op.field)
        /\ drop_field(store, op.collection, op.field) = store

\* A drop_field call removed the field from a document that had it.
C3_Witness ==
    /\ op.name = "drop_field"
    /\ \E i \in 1..Len(pre[op.collection]) :
          /\ Has(pre[op.collection][i], op.field)
          /\ ~Has(store[op.collection][i], op.field)

\* Some bridge value occurs in two source documents of the call in op.
DuplicateBridge(key) ==
    \E i, j \in 1..Len(pre[op.source.collection]) :
        /\ i < j
        /\ pre[op.source.collection][i].f[op.source.bridge_field] = key
        /\ pre[op.source.collection][j].f[op.source.bridge_field] = key

\* The source_field value of the last source document with that bridge value.
LastSeen(key) ==
    LET src == pre[op.source.collection]
        last == CHOOSE j \in 1..Len(src) :
                    /\ src[j].f[op.source.bridge_field] = key
                    /\ \A h \in (j + 1)..Len(src) :
                          src[h].f[op.source.bridge_field] # key
    IN  src[last].f[op.source.source_field]

\* C4: when several source documents share a bridge value, the mapping
\* keeps the source_field value of the last of them in scan order, and
\* every target document with that bridge value receives that value.
C4_LastSeenWins ==
    MergeReturned =>
        \A key \in Values : DuplicateBridge(key) =>
            /\ DictGet(OpMappings, key) = LastSeen(key)
            /\ \A i \in 1..Len(pre[op.target.collection]) :
                LET d0 == pre[op.target.collection][i]
                    d1 == store[op.target.collection][i]
                IN  (Has(d0, op.target.bridge_field)
                        /\ d0.f[op.target.bridge_field] = key)
                    => /\ Has(d1, op.source.source_field)
                       /\ d1.f[op.source.source_field] = LastSeen(key)

----------------------------------------------------------------------------
(* Properties of the store adapter *)

\* The bag of the elements of a sequence.
BagOf(q) == [x \in Range(q) |-> Cardinality({i \in 1..Len(q) : q[i] = x})]

\* Rows or documents without their _id.
Contents(q) == [i \in 1..Len(q) |-> q[i].f]

\* The rows of two frames as multisets; the _id column counts only when the
\* first frame has one.
SameRowBag(frame, other) ==
    IF frame.id_col THEN BagOf(frame.rows) = BagOf(other.rows)
    ELSE BagOf(Contents(frame.rows)) = BagOf(Contents(other.rows))

\* The documents of the collection written are `before` followed by `rows`.
AppendedTo(before, rows, frame) ==
    LET docs == store[op.collection] IN
    /\ Len(docs) = Len(before) + Len(rows)
    /\ SubSeq(docs, 1, Len(before)) = before
    /\ LET tail == SubSeq(docs, Len(before) + 1, Len(docs)) IN
       IF frame.id_col THEN tail = rows ELSE Contents(tail) = Contents(rows)

\* C5 as stated: after write_polars with overwrite, read_polars yields the
\* multiset of rows of the frame written whatever the collection held; without
\* overwrite the rows are appended to what the collection held.
C5_WriteThenRead ==
    op.name = "write_polars" =>
        IF op.overwrite
        THEN SameRowBag(op.frame, read_polars(store, op.collection))
        ELSE AppendedTo(pre[op.collection], op.frame.rows, op.frame)

\* The first row of the frame written whose _id the collection already held.
FirstClash ==
    LET held == {pre[op.collection][h].id : h \in 1..Len(pre[op.collection])}
        rows == op.frame.rows
    IN  IF op.overwrite \/ ~op.frame.id_col
           \/ \A i \in 1..Len(rows) : rows[i].id \notin held
        THEN 0
        ELSE CHOOSE i \in 1..Len(rows) :
                /\ rows[i].id \in held
                /\ \A h \in 1..(i - 1) : rows[h].id \notin held

\* C5 amended: the round trip holds with overwrite; without overwrite the
\* rows are appended unless a row carries an _id the collection already
\* holds, and then the write raises BulkWriteError with only the rows
\* before the first such row appended; an empty frame raises TypeError and
\* inserts nothing; no other collection changes.
C5_WriteThenReadAmended ==
    op.name = "write_polars" =>
        LET rows == op.frame.rows
            c    == op.collection
        IN  /\ \A o \in Collections \ {c} : store[o] = pre[o]
            /\ op.overwrite =>
                SameRowBag(op.frame, read_polars(store, c))
            /\ raised = (IF rows = <<>> THEN "TypeError"
                         ELSE IF FirstClash > 0 THEN "BulkWriteError"
                         ELSE "none")
            /\ ~op.overwrite =>
                IF FirstClash > 0
                THEN AppendedTo(pre[c], SubSeq(rows, 1, FirstClash - 1), op.frame)
                ELSE AppendedTo(pre[c], rows, op.frame)

\* A frame of two different rows was written with overwrite to a collection
\* that held documents, none of which is left.
C5_Witness ==
    /\ op.name = "write_polars" /\ op.overwrite /\ raised = "none"
    /\ pre[op.collection] # <<>>
    /\ Len(op.frame.rows) = 2
    /\ op.frame.rows[1].f # op.frame.rows[2].f
    /\ \A i \in 1..Len(store[op.collection]) :
         \A h \in 1..Len(pre[op.collection]) :
            store[op.collection][i].id # pre[op.collection][h].id

----------------------------------------------------------------------------
(* Properties of the source connectors *)

\* The remote retrieval of the call in got failed inside its try block.
RemoteFailed ==
    \/ got.connector = "api" /\ env.set /\ ~(env.address /\ env.remote = "ok")
    \/ got.connector = "sql" /\ ~(env.set /\ env.remote = "ok")

\* Some retrieval of the call in got failed: the remote one, the lookup of
\* the environment, or the read of the file of the file connector.
SomethingFailed ==
    \/ RemoteFailed
    \/ got.connector = "api" /\ ~env.set
    \/ got.connector = "csv" /\ ~(env.local_file /\ got.ext \in {"", ".csv"})

\* C6 as stated: every connector answers any failure by reading the local
\* file, prints the failure and raises nothing to the caller of get.
C6_FallbackNeverRaises ==
    (got.connector # "none" /\ SomethingFailed) =>
        /\ got.raised = "none"
        /\ got.source = "local"
        /\ got.printed

----------------------------------------------------------------------------
(* Properties of the scoped store connection *)

\* C7: the store connection is acquired when the block is entered, stays
\* open while the statements of the block run, and is released once the
\* block has been left, whether its last statement returned or one raised.
C7_ReleasedOnEveryExit ==
    /\ pc \in {"body", "exit"} => client = "open"
    /\ pc = "done" => client = "closed"

\* C8: an exception raised by a statement of the block is printed by
\* __exit__ and is not raised to the code around the with statement.
C8_LoggedAndSwallowed ==
    (pc = "done" /\ exc.type # "none") =>
        /\ printed = exc.type
        /\ outcome = "completed"

----------------------------------------------------------------------------
(* Properties of the string transforms *)

Spaces(n) == [i \in 1..n |-> " "]

\* `short` is `long` without its leading and trailing whitespace.
IsStripOf(short, long) ==
    /\ \E i, j \in 0..Len(long) : long = Spaces(i) \o short \o Spaces(j)
    /\ short # <<>> => (short[1] # " " /\ short[Len(short)] # " ")

\* The value `new` a transform leaves for the computed value `value`.
Left(new, value) ==
    IF op.post_trim_whitespace THEN IsStripOf(new, value) ELSE new = value

\* The places where the delimiter occurs in the string.
Occurrences(str, delimiter) ==
    {i \in 1..(Len(str) - Len(delimiter) + 1) :
        SubSeq(str, i, i + Len(delimiter) - 1) = delimiter}

Before(str, i) == SubSeq(str, 1, i - 1)
After(str, i, delimiter) == SubSeq(str, i + Len(delimiter), Len(str))

\* Row i of the frame returned differs from row i of the frame passed in the
\* columns `changed` at most.
RowKept(i, changed) ==
    /\ df.rows[i].id = arg.rows[i].id
    /\ \A col \in arg.cols \ changed : df.rows[i].f[col] = arg.rows[i].f[col]

FrameKept ==
    /\ df.cols = arg.cols
    /\ df.id_col = arg.id_col
    /\ Len(df.rows) = Len(arg.rows)

\* C9 as stated: replace_with_suffix(table, field, suffix_field, delimiter)
\* leaves in field everything before the last occurrence of the delimiter
\* and in suffix_field everything after it; without a delimiter the suffix
\* is the whole value and field the empty string.
C9_SplitOnLastDelimiter ==
    (op.name = "replace_with_suffix" /\ op.post_trim_whitespace) =>
        \A i \in 1..Len(arg.rows) :
            LET value == arg.rows[i].f["product_name"]
                at    == Occurrences(value, op.delimiter)
                last  == CHOOSE k \in at : \A h \in at : h <= k
            IN  IF at # {}
                THEN /\ df.rows[i].f["product_name"] = Before(value, last)
                     /\ df.rows[i].f["model_year"] = After(value, last, op.delimiter)
                ELSE /\ df.rows[i].f["product_name"] = <<>>
                     /\ df.rows[i].f["model_year"] = value

\* C9 amended: the value is cut at an occurrence of the delimiter after
\* which no further one follows (the last occurrence, for a delimiter of
\* one character); field gets what precedes it and suffix_field what
\* follows it, and without a delimiter the suffix is the whole value and
\* field the empty string; with post_trim_whitespace, the default, both are
\* then stripped of leading and trailing whitespace.  No other column and
\* no row is added, dropped or changed.
C9_SplitAmended ==
    op.name = "replace_with_suffix" =>
        /\ FrameKept
        /\ \A i \in 1..Len(arg.rows) :
            LET value == arg.rows[i].f["product_name"]
                at    == Occurrences(value, op.delimiter)
                name  == df.rows[i].f["product_name"]
                year  == df.rows[i].f["model_year"]
            IN  /\ RowKept(i, {"product_name", "model_year"})
                /\ IF at # {}
                   THEN \E k \in at :
                        /\ Occurrences(After(value, k, op.delimiter), op.delimiter) = {}
                        /\ Len(op.delimiter) = 1 => \A h \in at : h <= k
                        /\ Left(name, Before(value, k))
                        /\ Left(year, After(value, k, op.delimiter))
                   ELSE name = <<>> /\ Left(year, value)

\* replace_with_suffix cut a value holding the delimiter twice at the second
\* of them, and took a value without delimiter whole as the suffix.
C9_Witness ==
    /\ op.name = "replace_with_suffix" /\ op.delimiter = <<"-">>
    /\ arg.rows[1].f["product_name"] = <<"-", "a", "-">>
    /\ df.rows[1].f["product_name"] = <<"-", "a">>
    /\ df.rows[1].f["model_year"] = <<>>
    /\ arg.rows[2].f["product_name"] = <<"a">>
    /\ df.rows[2].f["product_name"] = <<>>
    /\ df.rows[2].f["model_year"] = <<"a">>

\* C10: trim_prefix removes from each row's field the leading substring
\* equal to that row's prefix_field, leaves a value that does not start with
\* it unchanged, and with post_trim_whitespace strips leading and trailing
\* whitespace from the result; the other columns and the rows are kept.
C10_TrimPrefix ==
    op.name = "trim_prefix" =>
        /\ FrameKept
        /\ \A i \in 1..Len(arg.rows) :
            LET value  == arg.rows[i].f["product_name"]
                prefix == arg.rows[i].f["brand_name"]
                name   == df.rows[i].f["product_name"]
            IN  /\ RowKept(i, {"product_name"})
                /\ IF \E rest \in Strings : value = prefix \o rest
                   THEN \E rest \in Strings :
                            value = prefix \o rest /\ Left(name, rest)
                   ELSE Left(name, value)

\* trim_prefix removed the prefix of one row, left whitespace to strip, and
\* left alone another row whose value starts with the first row's prefix
\* but not with its own.
C10_Witness ==
    /\ op.name = "trim_prefix" /\ op.post_trim_whitespace
    /\ arg.rows[1].f["brand_name"] = <<"a">>
    /\ arg.rows[1].f["product_name"] = <<"a", " ", "a">>
    /\ df.rows[1].f["product_name"] = <<"a">>
    /\ arg.rows[2].f["brand_name"] = <<"-">>
    /\ arg.rows[2].f["product_name"] = <<"a", " ", "a">>
    /\ df.rows[2].f["product_name"] = <<"a", " ", "a">>

----------------------------------------------------------------------------
(* Properties of add_id *)

\* C11: add_id called with a name that is not yet a column returns the
\* table with the one column id_name added, whose value in the row at
\* zero-based position i is i, so that the ids are exactly 0..n-1, each
\* once; the columns and rows the table had are unchanged.
C11_AddIdRowPositions ==
    (op.name = "add_id" /\ op.id_name \notin arg.cols) =>
        /\ raised = "none"
        /\ df.cols = arg.cols \cup {op.id_name}
        /\ df.id_col = arg.id_col
        /\ Len(df.rows) = Len(arg.rows)
        /\ \A i \in 1..Len(df.rows) :
              /\ df.rows[i].f[op.id_name] = i - 1
              /\ DOMAIN df.rows[i].f = df.cols
              /\ RowKept(i, {})
        /\ {df.rows[i].f[op.id_name] : i \in 1..Len(df.rows)}
              = 0..(Len(df.rows) - 1)
        /\ \A i, j \in 1..Len(df.rows) :
              df.rows[i].f[op.id_name] = df.rows[j].f[op.id_name] => i = j

\* add_id has returned a frame of three rows read from the store, with
\* columns of its own, whose last row carries the id 2.
C11_Witness ==
    /\ op.name = "add_id"
    /\ raised = "none"
    /\ arg.id_col
    /\ arg.cols = {"b", "s"}
    /\ Len(df.rows) = 3
    /\ df.rows[3].f[op.id_name] = 2

----------------------------------------------------------------------------
(* Properties of the cleaning of products and customers *)

\* The collection holds, document by document, the rows of the frame.
HoldsFrame(collection, frame) == store[collection] = to_dicts(frame)

\* The products frame of the start of the cleaning, transformed.
ProductsTransformed ==
    replace_with_suffix(
        trim_prefix(read_polars(pre, "products"), "product_name", "brand_name", TRUE),
        "product_name", "model_year", <<"-">>, TRUE)

\* The products collection holds the transformed names and model years.
ProductsWrittenBack ==
    /\ HoldsFrame("products", df.products_df)
    /\ HoldsFrame("products", ProductsTransformed)

\* The customers collection holds the streets without their leading and
\* trailing whitespace.
CustomersWrittenBack ==
    /\ HoldsFrame("customers", df.customers_df)
    /\ Len(store["customers"]) = Len(pre["customers"])
    /\ \A i \in 1..Len(pre["customers"]) :
          store["customers"][i].f["street"]
              = strip_chars(pre["customers"][i].f["street"])

\* C12: at the end of the run the store holds the result of every string
\* operation the run applied in memory: products with trim_prefix and
\* replace_with_suffix applied, customers with the street trimmed.
C12_StringOperationsWrittenBack ==
    pc = "done" => (ProductsWrittenBack /\ CustomersWrittenBack)

----------------------------------------------------------------------------
(* Properties of the two loops of merge_collection *)

\* The target collection of the merge_collection call in op after the
\* updates of the first j items of the mapping.
AfterEntries(j) ==
    UpdateFrom(pre[op.target.collection], SubSeq(OpMappings, 1, j), 1,
               op.target.bridge_field, op.source.source_field)

\* The items of the mapping whose update changed target document i.
ModifiedBy(i) ==
    {j \in 1..Len(OpMappings) : AfterEntries(j)[i] # AfterEntries(j - 1)[i]}

\* The scan of the call in op met a source document without a field.
ScanFailed ==
    ScanRaises(pre[op.source.collection], op.source.bridge_field,
               op.source.source_field)

\* C13: the mapping is complete before the first update: when a source
\* document lacks the bridge field or the source field the call fails in
\* the scan and leaves the target collection as it was; when the call
\* returns, the updates are those of the complete mapping and every target
\* document is modified by at most one of its items.
C13_ScanBeforeUpdates ==
    op.name = "merge_collection" =>
        /\ ScanFailed => (raised = "KeyError" /\ store = pre)
        /\ MergeReturned =>
              /\ store[op.target.collection] = AfterEntries(Len(OpMappings))
              /\ \A i \in 1..Len(pre[op.target.collection]) :
                    Cardinality(ModifiedBy(i)) <= 1

====
